---------------------------- MODULE Spec2Model ----------------------------
(***************************************************************************)
(* A model of pyShelly's Block (src/pyShelly/block.py) and of its          *)
(* FirmwareManager (src/pyShelly/firmware.py).                             *)
(*                                                                         *)
(* A Python object is a record of its fields.  A value that may be None is *)
(* a sequence of length at most one: None is << >> and a present value v   *)
(* is << v >>.  A dict is a function from its keys to its values, so the   *)
(* empty dict is the empty function.                                       *)
(***************************************************************************)
EXTENDS Integers, Sequences, FiniteSets, TLC

VARIABLES
    now,        \* the wall clock read by datetime.now(), in seconds
    ticks,      \* which of the instants of the calls the clock shows
    block,      \* the Block object: a record of its fields
    call,       \* the last call made on the block: its name, how it ended, what it did
    fw,         \* the FirmwareManager object: a record of its fields
    threads,    \* the threads inside FirmwareManager._list_firmwares
    cycles      \* the positions of a poll cycle and a push cycle that overlap

vars == <<now, ticks, block, call, fw, threads, cycles>>

---------------------------------------------------------------------------
(* Python values.                                                          *)

None == << >>

Some(v) == << v >>

\* d.get(k), with None when the key is missing
Get(d, k) == IF k \in DOMAIN d THEN Some(d[k]) ELSE None

\* d.get(k, default)
GetOr(d, k, default) == IF k \in DOMAIN d THEN d[k] ELSE default

\* d[k] = v on a dict d
Put(d, k, v) == [x \in (DOMAIN d) \cup {k} |-> IF x = k THEN v ELSE d[x]]

\* the truth value Python gives an optional dict: None and {} are false
Truthy(opt) == opt # None /\ DOMAIN opt[1] # {}

EmptyDict == [x \in {} |-> 0]

---------------------------------------------------------------------------
(* Bounds of the model.                                                    *)

\* how many instants after its creation a block is called at
MaxTicks == 4

\* how many topology reloads are signalled in a behaviour
MaxReloads == 1

\* how many change observers are registered on the block
MaxObservers == 2

\* how many threads read the firmware catalog
MaxThreads == 2

\* how many times each thread reads it
MaxCalls == 2

\* how many times each of the two update cycles of the block is started
MaxCycles == 1

---------------------------------------------------------------------------
(* Program constants.                                                      *)

\* const.SENSOR_UNAVAILABLE_SEC: the value the specification's example uses
SENSOR_UNAVAILABLE_SEC == 600

\* the delay of the vibration flag's auto-reset rule: ATTR_AUTO_SET: [0, 60]
AutoSetDelay == 60

INFO_VALUE_DEVICE_TEMP == "device_temp"

INFO_VALUE_BATTERY == "battery"

INFO_VALUE_TILT == "tilt"

INFO_VALUE_VIBRATION == "vibration"

INFO_VALUE_ILLUMINANCE == "illuminance"

INFO_VALUE_TEMP == "temperature"

INFO_VALUE_PPM == "ppm"

INFO_VALUE_SENSOR == "sensor"

INFO_VALUE_TOTAL_WORK_TIME == "total_work_time"

\* the model identifiers Block._setup dispatches on
SetupTypes ==
    { "SHBLB-1", "SHCL-255", "SHSW-1", "SHSK-1", "SHSW-PM", "SHSW-21",
      "SHSW-25", "SHPLG-1", "SHPLG2-1", "SHPLG-S", "SHEM-3", "SH2LED-1",
      "SHEM", "SHSW-44", "SHRGBWW-01", "SHDM-1", "SHDM-2", "SHHT-1",
      "SHRGBW2", "SHWT-1", "SHDW-1", "SHDW-2", "SHBDUO-1", "SHVIN-1",
      "SHBTN-1", "SHIX3-1", "SHGS-1", "SHAIR-1" }

\* a model identifier that is in no table
UnknownType == "SHXX-0"

\* SHELLY_TYPES[type].get('battery'): the battery-powered models
Battery(type) == type \in {"SHHT-1", "SHWT-1", "SHDW-1", "SHDW-2", "SHBTN-1"}

---------------------------------------------------------------------------
(* The answers of the device to GET /settings.                             *)

SettingsDicts ==
    { EmptyDict, [mode |-> "roller"], [mode |-> "relay"], [mode |-> "color"],
      [mode |-> "white"], [name |-> "shelly"] }

\* http_get returns (success, res)
AllSettingsResponses ==
    { [success |-> FALSE, res |-> EmptyDict] }
        \cup { [success |-> TRUE, res |-> d] : d \in SettingsDicts }

\* the answers the behaviours of a block draw from
SettingsResponses ==
    { [success |-> FALSE, res |-> EmptyDict], [success |-> TRUE, res |-> EmptyDict],
      [success |-> TRUE, res |-> [mode |-> "roller"]],
      [success |-> TRUE, res |-> [mode |-> "relay"]] }

---------------------------------------------------------------------------
(* Sub-devices.  A sub-device is the record of what its constructor was    *)
(* given (its class and its channel or position argument) and of the       *)
(* fields the block reads and writes.  gen tells the sub-devices of one    *)
(* composition from those of the next: it is the identity of the object.   *)

NewDevice(self, kind, id) ==
    [ kind |-> kind, id |-> id, lazy_load |-> FALSE, gen |-> self.gen,
      ip_addr |-> self.ip_addr, info_values |-> EmptyDict ]

Bulb(self) == NewDevice(self, "Bulb", 0)

Relay(self, id) == NewDevice(self, "Relay", id)

Switch(self, id) == NewDevice(self, "Switch", id)

PowerMeter(self, id) == NewDevice(self, "PowerMeter", id)

ExtTemp(self, id) == NewDevice(self, "ExtTemp", id)

ExtHumidity(self, id) == NewDevice(self, "ExtHumidity", id)

Roller(self) == NewDevice(self, "Roller", 0)

RGBW2W(self, id) == NewDevice(self, "RGBW2W", id)

RGBW2C(self) == NewDevice(self, "RGBW2C", 0)

RGBWW(self) == NewDevice(self, "RGBWW", 0)

Dimmer(self) == NewDevice(self, "Dimmer", 0)

Sensor(self, pos, sensor_type) == NewDevice(self, "Sensor_" \o sensor_type, pos)

Flood(self) == NewDevice(self, "Flood", 0)

DoorWindow(self, pos) == NewDevice(self, "DoorWindow", pos)

Duo(self) == NewDevice(self, "Duo", 0)

Vintage(self) == NewDevice(self, "Vintage", 0)

Gas(self, pos) == NewDevice(self, "Gas", pos)

\* the identity of a sub-device object
DevId(dev) == [kind |-> dev.kind, id |-> dev.id, gen |-> dev.gen]

---------------------------------------------------------------------------
(* Block.poll_settings, Block._add_device and Block._setup.                *)

\* poll_settings without the test of success
poll_settings_unchecked(self, resp) ==
    IF Battery(self.type)
    THEN self
    ELSE [self EXCEPT !.settings = Some(resp.res)]

poll_settings(self, resp) ==
    IF Battery(self.type)
    THEN self
    ELSE IF resp.success
         THEN [self EXCEPT !.settings = Some(resp.res)]
         ELSE self

_add_device(self, dev, lazy_load) ==
    [self EXCEPT !.devices = Append(@, [dev EXCEPT !.lazy_load = lazy_load])]

\* a run of self._add_device(dev) calls, in order
RECURSIVE _add_devices(_, _)
_add_devices(self, devs) ==
    IF devs = << >>
    THEN self
    ELSE _add_devices(_add_device(self, Head(devs), FALSE), Tail(devs))

\* a run of self._add_device(dev, True) calls, in order
RECURSIVE _add_lazy_devices(_, _)
_add_lazy_devices(self, devs) ==
    IF devs = << >>
    THEN self
    ELSE _add_lazy_devices(_add_device(self, Head(devs), TRUE), Tail(devs))

\* the Shelly 4 Pro's loop: for channel in range(4)
RECURSIVE Setup44(_, _)
Setup44(self, channel) ==
    IF channel >= 4
    THEN self
    ELSE Setup44(_add_devices(self,
                     << Relay(self, channel + 1), PowerMeter(self, channel + 1),
                        Switch(self, channel + 1) >>),
                 channel + 1)

\* the RGBW2's white mode loop: for channel in range(4)
RECURSIVE SetupWhite(_, _)
SetupWhite(self, channel) ==
    IF channel >= 4
    THEN self
    ELSE SetupWhite(_add_devices(self,
                        << RGBW2W(self, channel + 1),
                           PowerMeter(self, channel + 1) >>),
                    channel + 1)

SleepDevice(self) ==
    [self EXCEPT !.sleep_device = TRUE,
                 !.unavailable_after_sec = Some(SENSOR_UNAVAILABLE_SEC)]

\* the branches of _setup, after the settings were fetched
SetupBranch(self) ==
    LET t == self.type
        mode == IF self.settings = None THEN None
                ELSE Get(self.settings[1], "mode")
    IN
    CASE t \in {"SHBLB-1", "SHCL-255"} ->
            _add_devices(self, << Bulb(self) >>)
      [] t \in {"SHSW-1", "SHSK-1"} ->
            _add_lazy_devices(
                _add_devices(self, << Relay(self, 0), Switch(self, 0) >>),
                << ExtTemp(self, 0), ExtTemp(self, 1), ExtTemp(self, 2),
                   ExtHumidity(self, 0) >>)
      [] t = "SHSW-PM" ->
            _add_lazy_devices(
                _add_devices(self,
                    << Relay(self, 0), PowerMeter(self, 0), Switch(self, 0) >>),
                << ExtTemp(self, 0), ExtTemp(self, 1), ExtTemp(self, 2),
                   ExtHumidity(self, 0) >>)
      [] t = "SHSW-21" ->
            IF Truthy(self.settings)
            THEN _add_devices(
                    IF mode = Some("roller")
                    THEN _add_devices(self, << Roller(self) >>)
                    ELSE _add_devices(self, << Relay(self, 1), Relay(self, 2) >>),
                    << Switch(self, 1), Switch(self, 2), PowerMeter(self, 0) >>)
            ELSE self
      [] t = "SHSW-25" ->
            IF Truthy(self.settings)
            THEN IF mode = Some("roller")
                 THEN _add_devices(self, << Roller(self), PowerMeter(self, 1) >>)
                 ELSE _add_devices(self,
                        << Relay(self, 1), Relay(self, 2), PowerMeter(self, 1),
                           PowerMeter(self, 2), Switch(self, 1), Switch(self, 2) >>)
            ELSE self
      [] t \in {"SHPLG-1", "SHPLG2-1", "SHPLG-S"} ->
            _add_devices(self, << Relay(self, 0), PowerMeter(self, 0) >>)
      [] t = "SHEM-3" ->
            _add_devices(self,
                << Relay(self, 0), PowerMeter(self, 1), PowerMeter(self, 2),
                   PowerMeter(self, 3) >>)
      [] t = "SH2LED-1" ->
            _add_devices(self, << RGBW2W(self, 0), RGBW2W(self, 1) >>)
      [] t = "SHEM" ->
            _add_devices(self,
                << Relay(self, 0), PowerMeter(self, 1), PowerMeter(self, 2) >>)
      [] t = "SHSW-44" -> Setup44(self, 0)
      [] t = "SHRGBWW-01" -> _add_devices(self, << RGBWW(self) >>)
      [] t \in {"SHDM-1", "SHDM-2"} ->
            _add_lazy_devices(
                _add_devices(
                    [self EXCEPT !._info_value_cfg =
                        Some([x \in {INFO_VALUE_DEVICE_TEMP} |-> [pos |-> 311]])],
                    << Dimmer(self), Switch(self, 1), Switch(self, 2) >>),
                << PowerMeter(self, 0) >>)
      [] t = "SHHT-1" ->
            _add_devices(SleepDevice(self),
                << Sensor(self, 33, "temperature"), Sensor(self, 44, "humidity") >>)
      [] t = "SHRGBW2" ->
            _add_devices(
                IF Truthy(self.settings)
                THEN IF GetOr(self.settings[1], "mode", "color") = "color"
                     THEN _add_devices(self, << RGBW2C(self), PowerMeter(self, 0) >>)
                     ELSE SetupWhite(self, 0)
                ELSE self,
                << Switch(self, 0) >>)
      [] t = "SHWT-1" ->
            _add_devices(SleepDevice(self),
                << Flood(self), Sensor(self, 33, "temperature") >>)
      [] t = "SHDW-1" ->
            _add_devices(
                [SleepDevice(self) EXCEPT !._info_value_cfg = Some(
                    (INFO_VALUE_BATTERY :> [pos |-> 77])
                    @@ (INFO_VALUE_TILT :> [pos |-> 88])
                    @@ (INFO_VALUE_VIBRATION :> [pos |-> 99, auto_set |-> <<0, AutoSetDelay>>])
                    @@ (INFO_VALUE_ILLUMINANCE :> [pos |-> 66]))],
                << DoorWindow(self, 55) >>)
      [] t = "SHDW-2" ->
            _add_devices(
                [SleepDevice(self) EXCEPT
                    !.exclude_info_values = Append(@, INFO_VALUE_DEVICE_TEMP),
                    !._info_value_cfg = Some(
                        (INFO_VALUE_BATTERY :> [pos |-> 3111])
                        @@ (INFO_VALUE_TILT :> [pos |-> 3109])
                        @@ (INFO_VALUE_VIBRATION :>
                                [pos |-> 6110, auto_set |-> <<0, AutoSetDelay>>])
                        @@ (INFO_VALUE_TEMP :> [pos |-> 3101])
                        @@ (INFO_VALUE_ILLUMINANCE :> [pos |-> 3106]))],
                << DoorWindow(self, 3108) >>)
      [] t = "SHBDUO-1" -> _add_devices(self, << Duo(self), PowerMeter(self, 0) >>)
      [] t = "SHVIN-1" ->
            _add_devices(self, << Vintage(self), PowerMeter(self, 0) >>)
      [] t = "SHBTN-1" -> _add_devices(self, << Switch(self, 0) >>)
      [] t = "SHIX3-1" ->
            _add_devices(self, << Switch(self, 1), Switch(self, 2), Switch(self, 3) >>)
      [] t = "SHGS-1" ->
            _add_devices(
                [self EXCEPT !._info_value_cfg = Some(
                    (INFO_VALUE_PPM :> [pos |-> 122])
                    @@ (INFO_VALUE_SENSOR :> [pos |-> 118]))],
                << Gas(self, 119) >>)
      [] t = "SHAIR-1" ->
            _add_devices(
                [self EXCEPT !._info_value_cfg = Some(
                    (INFO_VALUE_TEMP :>
                        [pos |-> 119, path |-> "ext_temperatures/0"])
                    @@ (INFO_VALUE_TOTAL_WORK_TIME :>
                        [pos |-> 121, path |-> "total_work_time"]))],
                << Relay(self, 0), PowerMeter(self, 0), Switch(self, 0) >>)
      [] OTHER -> self

\* _setup with a last branch that makes a model it does not know a sleeping
\* sensor with one switch
_setup_defaulting(self, resp) ==
    LET s == poll_settings(self, resp)
    IN  IF s.type = UnknownType
        THEN _add_devices(SleepDevice(s), << Switch(s, 0) >>)
        ELSE SetupBranch(s)

\* resp is the device's answer to the GET /settings of poll_settings
_setup(self, resp) == SetupBranch(poll_settings(self, resp))

---------------------------------------------------------------------------
(* Block.__init__.                                                         *)

BlockAddr == "192.168.1.10"

\* the fields __init__ sets before it calls _setup; gen counts the
\* compositions and is the identity the sub-device objects are given
NewBlock(type) ==
    [ type |-> type, ip_addr |-> BlockAddr, devices |-> << >>,
      protocols |-> << >>, cb_updated |-> << >>,
      unavailable_after_sec |-> None, last_update_status_info |-> None,
      reload |-> FALSE, last_updated |-> None, sleep_device |-> FALSE,
      settings |-> None, exclude_info_values |-> << >>,
      _info_value_cfg |-> None, info_values |-> EmptyDict,
      info_values_updated |-> EmptyDict, payload |-> None,
      _available |-> None, gen |-> 0 ]

Block(type, resp) == [_setup(NewBlock(type), resp) EXCEPT !._available = None]

---------------------------------------------------------------------------
(* What a call did, for the properties to read: the calls it made on the   *)
(* parent registry, on the sub-devices and on the observers, in order.     *)

BlockId == [kind |-> "Block", id |-> 0, gen |-> 0]

Ev(ev, who, i) == [ev |-> ev, who |-> who, i |-> i]

\* the outcome of a method: the object after it, what it did, and whether
\* it ended by an exception leaving it
Outcome(self, trace, raised) == [self |-> self, trace |-> trace, raised |-> raised]

NoCall == [name |-> "none", arg |-> "", raised |-> FALSE, trace |-> << >>]

\* arg tells what the call was given: for a poll, what the fetch gave
Called(name, arg, out) ==
    [name |-> name, arg |-> arg, raised |-> out.raised, trace |-> out.trace]

---------------------------------------------------------------------------
(* Block.raise_updated: for callback in self.cb_updated: callback(self).   *)
(* bad is the set of the observers that raise when they are called.        *)

RECURSIVE Callbacks(_, _, _, _)
Callbacks(who, cb_updated, bad, i) ==
    IF i > Len(cb_updated)
    THEN [trace |-> << >>, raised |-> FALSE]
    ELSE IF cb_updated[i] \in bad
         THEN [trace |-> << Ev("callback", who, cb_updated[i]) >>, raised |-> TRUE]
         ELSE LET rest == Callbacks(who, cb_updated, bad, i + 1)
              IN  [rest EXCEPT !.trace = << Ev("callback", who, cb_updated[i]) >> \o @]

raise_updated(who, cb_updated, bad) ==
    LET r == Callbacks(who, cb_updated, bad, 1)
    IN  [r EXCEPT !.trace = << Ev("raise_updated", who, 0) >> \o @]

\* the observer the platform registers on every sub-device
DeviceObserver == 0

\* Device.raise_updated, on the one observer of a sub-device
dev_raise_updated(dev, bad) == raise_updated(DevId(dev), << DeviceObserver >>, bad)

---------------------------------------------------------------------------
(* Block.available.                                                        *)

\* available() with the comparison strict: a block exactly as stale as its
\* timeout allows counts as unavailable
available_strict(self, t) ==
    IF self.unavailable_after_sec = None
    THEN TRUE
    ELSE IF self.last_updated = None
         THEN FALSE
         ELSE t - self.last_updated[1] < self.unavailable_after_sec[1]

available(self, t) ==
    IF self.unavailable_after_sec = None
    THEN TRUE
    ELSE IF self.last_updated = None
         THEN FALSE
         ELSE t - self.last_updated[1] <= self.unavailable_after_sec[1]

---------------------------------------------------------------------------
(* Block.check_available.                                                  *)

RECURSIVE NotifyDevices(_, _, _)
NotifyDevices(devices, bad, i) ==
    IF i > Len(devices)
    THEN [trace |-> << >>, raised |-> FALSE]
    ELSE LET r == dev_raise_updated(devices[i], bad)
         IN  IF r.raised
             THEN r
             ELSE LET rest == NotifyDevices(devices, bad, i + 1)
                  IN  [rest EXCEPT !.trace = r.trace \o @]

check_available(self, t, bad) ==
    IF Some(available(self, t)) # self._available
    THEN LET self1 == [self EXCEPT !._available = Some(available(self, t))]
             r == raise_updated(BlockId, self1.cb_updated, bad)
         IN  IF r.raised
             THEN Outcome(self1, r.trace, TRUE)
             ELSE LET d == NotifyDevices(self1.devices, bad, 1)
                  IN  Outcome(self1, r.trace \o d.trace, d.raised)
    ELSE Outcome(self, << >>, FALSE)

---------------------------------------------------------------------------
(* Block.loop: the auto-reset rules.                                       *)

\* the names of _info_value_cfg, in the order the dict gives them
CfgNames == << INFO_VALUE_BATTERY, INFO_VALUE_TILT, INFO_VALUE_VIBRATION,
               INFO_VALUE_TEMP, INFO_VALUE_ILLUMINANCE, INFO_VALUE_DEVICE_TEMP,
               INFO_VALUE_PPM, INFO_VALUE_SENSOR, INFO_VALUE_TOTAL_WORK_TIME >>

\* the rule firing as soon as the delay has passed, not only after it
AutoSetFires_at_delay(self, iv, cfg, t) ==
    /\ "auto_set" \in DOMAIN cfg
    /\ Get(self.info_values, iv) # Some(cfg.auto_set[1])
    /\ Get(self.info_values_updated, iv) # None
    /\ t - self.info_values_updated[iv] >= cfg.auto_set[2]

\* whether the rule of one info value fires: its value is not the target
\* and it was last updated more than the delay ago
AutoSetFires(self, iv, cfg, t) ==
    /\ "auto_set" \in DOMAIN cfg
    /\ Get(self.info_values, iv) # Some(cfg.auto_set[1])
    /\ Get(self.info_values_updated, iv) # None
    /\ t - self.info_values_updated[iv] > cfg.auto_set[2]

RECURSIVE LoopFrom(_, _, _, _)
LoopFrom(self, t, bad, i) ==
    IF i > Len(CfgNames)
    THEN Outcome(self, << >>, FALSE)
    ELSE LET iv == CfgNames[i]
             cfgs == self._info_value_cfg[1]
         IN  IF iv \in DOMAIN cfgs /\ AutoSetFires(self, iv, cfgs[iv], t)
             THEN LET self1 == [self EXCEPT !.info_values =
                                    Put(@, iv, cfgs[iv].auto_set[1])]
                      r == raise_updated(BlockId, self1.cb_updated, bad)
                  IN  IF r.raised
                      THEN Outcome(self1, r.trace, TRUE)
                      ELSE LET rest == LoopFrom(self1, t, bad, i + 1)
                           IN  [rest EXCEPT !.trace = r.trace \o @]
             ELSE LoopFrom(self, t, bad, i + 1)

loop(self, t, bad) ==
    IF Truthy(self._info_value_cfg)
    THEN LoopFrom(self, t, bad, 1)
    ELSE Outcome(self, << >>, FALSE)

---------------------------------------------------------------------------
(* The info value extraction of Base, the class Block and the sub-devices  *)
(* inherit from: a rule names a position in a push payload (pos) and a     *)
(* path in a status (path); a locator the input does not carry is skipped, *)
(* a value found is written and stamped with the time of the write.        *)

INFO_VALUE_CLOUD_STATUS == "cloud_status"

INFO_VALUE_CLOUD_ENABLED == "cloud_enabled"

INFO_VALUE_CLOUD_CONNECTED == "cloud_connected"

INFO_VALUE_FW_VERSION == "fw_version"

INFO_VALUE_LATEST_FIRMWARE_VERSION == "latest_fw_version"

INFO_VALUE_LATEST_BETA_FW_VERSION == "latest_beta_fw_version"

INFO_VALUE_PAYLOAD == "payload"

\* REGEX_VER picks the version token out of "<date>-<time>/<version>@<hash>"
VersionTokens ==
    ("20200309-104051/v1.6.0@43056d58" :> "v1.6.0")
    @@ ("20200320-123430/v1.6.1-rc1@bc2ad6a1" :> "v1.6.1-rc1")

\* the format transform of a rule: "ver" gives the version token of the value
Formatted(value, fmt) ==
    IF fmt = "ver" /\ value \in DOMAIN VersionTokens THEN VersionTokens[value]
    ELSE value

\* const.BLOCK_INFO_VALUES: the rules every block extracts from a status
BLOCK_INFO_VALUES ==
    (INFO_VALUE_CLOUD_ENABLED :> [path |-> "cloud/enabled"])
    @@ (INFO_VALUE_CLOUD_CONNECTED :> [path |-> "cloud/connected"])
    @@ (INFO_VALUE_FW_VERSION :> [path |-> "update/old_version", fmt |-> "ver"])
    @@ (INFO_VALUE_LATEST_FIRMWARE_VERSION :>
            [path |-> "update/new_version", fmt |-> "ver"])
    @@ (INFO_VALUE_DEVICE_TEMP :> [path |-> "tmp/tC"])

\* the rules of a sub-device class: its state, at a position and at a path
DeviceInfoValueCfg == ("state" :> [pos |-> 112, path |-> "relays/0/ison"])

\* the values the rules cfgs find in a status, by name
FromStatus(cfgs, status) ==
    [ name \in { n \in DOMAIN cfgs :
                    "path" \in DOMAIN cfgs[n] /\ cfgs[n].path \in DOMAIN status }
        |-> IF "fmt" \in DOMAIN cfgs[name]
            THEN Formatted(status[cfgs[name].path], cfgs[name].fmt)
            ELSE status[cfgs[name].path] ]

\* the values the rules cfgs find in a push payload, by name
FromPayload(cfgs, payload) ==
    [ name \in { n \in DOMAIN cfgs :
                    "pos" \in DOMAIN cfgs[n] /\ cfgs[n].pos \in DOMAIN payload }
        |-> payload[cfgs[name].pos] ]

\* the owner (a block or a sub-device) after the values found were written
WriteValues(owner, found, t) ==
    IF "info_values_updated" \in DOMAIN owner
    THEN [owner EXCEPT !.info_values = found @@ @,
                       !.info_values_updated = [n \in DOMAIN found |-> t] @@ @]
    ELSE [owner EXCEPT !.info_values = found @@ @]

\* the rules with the names of exclude left out
Without(cfgs, exclude) ==
    [ n \in DOMAIN cfgs \ { exclude[i] : i \in DOMAIN exclude } |-> cfgs[n] ]

\* Base._update_info_values_coap(payload)
_update_info_values_coap(owner, cfg, payload, t) ==
    IF Truthy(cfg) THEN WriteValues(owner, FromPayload(cfg[1], payload), t) ELSE owner

\* the calls of Base._update_info_value(name, status, cfg) over a rule set
_update_info_value(owner, cfgs, status, t) ==
    WriteValues(owner, FromStatus(cfgs, status), t)

---------------------------------------------------------------------------
(* FirmwareManager (firmware.py), as one caller at a time runs it.         *)

\* the catalog entries the repository may hold for a model
CatalogEntries ==
    { [version |-> "20200309-104051/v1.6.0@43056d58"],
      [version |-> "20200309-104051/v1.6.0@43056d58",
       beta_ver |-> "20200320-123430/v1.6.1-rc1@bc2ad6a1",
       beta_url |-> "http://repo.shelly.cloud/beta.zip"] }

\* what urlopen, read and json.loads give: a failure, or the body's data
CatalogReplies(type) ==
    { [failed |-> TRUE, data |-> None],
      [failed |-> FALSE, data |-> None] }
        \cup { [failed |-> FALSE, data |-> Some(type :> e)] : e \in CatalogEntries }

\* _lock holds the thread that is inside "with self._lock", if any; fetches
\* counts the calls of _http_get, and failed tells that one of them failed
NewFirmwareManager ==
    [_firmwares |-> None, _downloaded |-> FALSE, _lock |-> None, fetches |-> 0,
     failed |-> FALSE]

\* _http_get without the return that follows its try
_http_get_none(reply) == IF reply.failed THEN None ELSE reply.data

\* _http_get: res['data'], or {} when anything raised
_http_get(reply) == IF reply.failed THEN Some(EmptyDict) ELSE reply.data

\* the property _list_firmwares
_list_firmwares(mgr, reply) ==
    IF mgr._downloaded
    THEN [mgr |-> mgr, value |-> mgr._firmwares]
    ELSE IF mgr._firmwares = None
         THEN LET got == _http_get(reply)
              IN  [mgr |-> [mgr EXCEPT !._firmwares = got, !._downloaded = TRUE,
                                       !.fetches = @ + 1,
                                       !.failed = @ \/ reply.failed],
                   value |-> got]
         ELSE [mgr |-> mgr, value |-> mgr._firmwares]

format(value) ==
    IF value \in DOMAIN VersionTokens THEN VersionTokens[value] ELSE value

\* version(shelly_type, beta): the value returned (None when the method
\* falls off its end), or an exception: "in" on a catalog that is None
version(mgr, shelly_type, beta, reply) ==
    LET first == _list_firmwares(mgr, reply)
    IN  IF first.value = None
        THEN [mgr |-> first.mgr, value |-> None, raised |-> TRUE]
        ELSE IF shelly_type \in DOMAIN first.value[1]
             THEN LET cfg == _list_firmwares(first.mgr, reply).value[1][shelly_type]
                  IN  [mgr |-> first.mgr,
                       value |-> IF beta /\ "beta_ver" \in DOMAIN cfg
                                 THEN Some(format(cfg.beta_ver))
                                 ELSE Some(format(cfg.version)),
                       raised |-> FALSE]
             ELSE [mgr |-> first.mgr, value |-> None, raised |-> FALSE]

\* url(shelly_type, beta)
url(mgr, shelly_type, beta, reply) ==
    LET first == _list_firmwares(mgr, reply)
    IN  IF first.value = None
        THEN [mgr |-> first.mgr, value |-> None, raised |-> TRUE]
        ELSE IF shelly_type \in DOMAIN first.value[1]
             THEN LET cfg == _list_firmwares(first.mgr, reply).value[1][shelly_type]
                  IN  [mgr |-> first.mgr,
                       value |-> IF beta /\ "beta_ver" \in DOMAIN cfg
                                 THEN Some(cfg.beta_url)
                                 ELSE None,
                       raised |-> FALSE]
             ELSE [mgr |-> first.mgr, value |-> None, raised |-> FALSE]

---------------------------------------------------------------------------
(* Block._reload_devices.                                                  *)

\* for device in self.devices: parent.remove_device(device, ...); device.close()
RECURSIVE RemoveAndClose(_, _)
RemoveAndClose(devices, i) ==
    IF i > Len(devices)
    THEN << >>
    ELSE << Ev("remove_device", DevId(devices[i]), 0),
            Ev("close", DevId(devices[i]), 0) >>
         \o RemoveAndClose(devices, i + 1)

\* the sub-device objects a composition constructed
Constructed(devices) ==
    [ i \in 1..Len(devices) |-> Ev("new", DevId(devices[i]), 0) ]

\* a reload that forgets self.devices = []: the new sub-devices are
\* appended to the closed ones
_reload_devices_appending(self, resp) ==
    LET closed == RemoveAndClose(self.devices, 1)
        self1 == _setup([self EXCEPT !.gen = @ + 1], resp)
    IN  Outcome(self1, closed \o Constructed(self1.devices), FALSE)

\* a reload that builds the block anew, as __init__ does: the time of the
\* last update is lost
_reload_devices_anew(self, resp) ==
    LET closed == RemoveAndClose(self.devices, 1)
        self1 == _setup([self EXCEPT !.devices = << >>, !.gen = @ + 1,
                                     !.last_updated = None], resp)
    IN  Outcome(self1, closed \o Constructed(self1.devices), FALSE)

_reload_devices(self, resp) ==
    LET closed == RemoveAndClose(self.devices, 1)
        self1 == _setup([self EXCEPT !.devices = << >>, !.gen = @ + 1], resp)
    IN  Outcome(self1, closed \o Constructed(self1.devices), FALSE)

---------------------------------------------------------------------------
(* Block.update_coap.  signal tells whether a sub-device's update_coap     *)
(* found a change of mode and set the block's reload flag; resp is the     *)
(* answer to the GET /settings a reload sends.                             *)

\* dev.ip_addr = ip_addr; dev._update_info_values_coap(payload)
DeviceCoap(dev, payload, ip_addr, t) ==
    _update_info_values_coap([dev EXCEPT !.ip_addr = ip_addr],
                             Some(DeviceInfoValueCfg), payload, t)

\* after a reload: the new sub-devices read the payload and are registered
Registered(devices) ==
    [ i \in 1..Len(devices) |-> Ev("add_device", DevId(devices[i]), 0) ]

\* self.ip_addr = ip_addr; self.last_updated = datetime.now()
coap_stamp(self, ip_addr, t) ==
    [self EXCEPT !.ip_addr = ip_addr, !.last_updated = Some(t)]

\* self._update_info_values_coap(payload)
coap_block(self, payload, t) ==
    _update_info_values_coap(self, self._info_value_cfg, payload, t)

\* for dev in self.devices: ...
coap_devices(self, payload, ip_addr, t, signal) ==
    [self EXCEPT
        !.devices = [ i \in 1..Len(@) |-> DeviceCoap(@[i], payload, ip_addr, t) ],
        !.reload = @ \/ (signal /\ self.devices # << >>)]

\* if self.reload: ...
coap_reload(self, payload, t, resp) ==
    IF self.reload
    THEN LET r == _reload_devices(self, resp)
             self1 == [r.self EXCEPT
                        !.devices = [ i \in 1..Len(@) |->
                            _update_info_values_coap(@[i],
                                Some(DeviceInfoValueCfg), payload, t) ],
                        !.reload = FALSE]
         IN  Outcome(self1, r.trace \o Registered(self1.devices), FALSE)
    ELSE Outcome(self, << >>, FALSE)

update_coap(self, payload, ip_addr, t, signal, resp) ==
    LET self1 == coap_stamp(self, ip_addr, t)
        self2 == coap_block(self1, payload, t)
        self3 == coap_devices(self2, payload, ip_addr, t, signal)
    IN  coap_reload(self3, payload, t, resp)

---------------------------------------------------------------------------
(* Block.update_status_information.  resp is the answer to GET /status,    *)
(* signal tells whether a sub-device's update_status_information set the   *)
(* reload flag, reply is what the firmware repository answers if asked.    *)

latest_fw_version(self, mgr, beta, reply) ==
    IF beta
    THEN version(mgr, self.type, TRUE, reply)
    ELSE [mgr |-> mgr, value |-> Get(self.info_values,
                                     INFO_VALUE_LATEST_FIRMWARE_VERSION),
          raised |-> FALSE]

\* Block.fw_version
fw_version(self) == Get(self.info_values, INFO_VALUE_FW_VERSION)

\* the truth value Python gives an optional string: None and "" are false
TruthyStr(opt) == opt # None /\ opt[1] # ""

\* has_fw_update without the test of the current version
has_fw_update_unless_latest(self, mgr, beta, reply) ==
    LET latest == latest_fw_version(self, mgr, beta, reply)
        current == fw_version(self)
    IN  [mgr |-> latest.mgr, raised |-> latest.raised,
         latest |-> latest.value, current |-> current,
         value |-> IF latest.raised THEN "None"
                   ELSE IF ~TruthyStr(latest.value)
                        THEN (IF latest.value = None THEN "None" ELSE "''")
                        ELSE IF latest.value # current THEN "True" ELSE "False"]

\* Block.has_fw_update: latest and current and latest != current.  value is
\* the object returned, as Python writes it: None, '', True or False
has_fw_update(self, mgr, beta, reply) ==
    LET latest == latest_fw_version(self, mgr, beta, reply)
        current == fw_version(self)
    IN  [mgr |-> latest.mgr, raised |-> latest.raised,
         latest |-> latest.value, current |-> current,
         value |-> IF latest.raised THEN "None"
                   ELSE IF ~TruthyStr(latest.value)
                        THEN (IF latest.value = None THEN "None" ELSE "''")
                        ELSE IF ~TruthyStr(current)
                             THEN (IF current = None THEN "None" ELSE "''")
                             ELSE IF latest.value # current THEN "True" ELSE "False"]

\* Block.update_firmware: the requests it sends to the device, or an
\* exception of url()
update_firmware(self, mgr, beta, reply) ==
    LET u == IF beta
             THEN url(mgr, self.type, FALSE, reply)
             ELSE [mgr |-> mgr, value |-> None, raised |-> FALSE]
    IN  [mgr |-> u.mgr, raised |-> u.raised,
         requests |-> IF u.raised THEN << >>
                      ELSE IF TruthyStr(u.value)
                           THEN << "/ota?url=" \o u.value[1] >>
                           ELSE << "/ota?update=1" >>]

\* the cloud status with the test of the connection first
CloudStatus_connected_first(self) ==
    IF Get(self.info_values, INFO_VALUE_CLOUD_CONNECTED) = Some(TRUE)
    THEN "connected"
    ELSE IF Get(self.info_values, INFO_VALUE_CLOUD_ENABLED) = Some(TRUE)
         THEN "disconnected"
         ELSE "disabled"

\* the cloud status the block derives from the two extracted values
CloudStatus(self) ==
    IF Get(self.info_values, INFO_VALUE_CLOUD_ENABLED) = Some(TRUE)
    THEN IF Get(self.info_values, INFO_VALUE_CLOUD_CONNECTED) = Some(TRUE)
         THEN "connected"
         ELSE "disconnected"
    ELSE "disabled"

\* what raises during a call is given by number: an observer by the number
\* it was registered under, and for the sub-device at index i of the list
\* its extraction, its update_status_information and its raise_updated
DevExtract(i) == 0 - (3 * i)

DevHook(i) == 0 - (3 * i + 1)

DevNotify(i) == 0 - (3 * i + 2)

\* the loop over the sub-devices with one try around the loop: the first
\* failure ends it
RECURSIVE StatusDevices_aborting(_, _, _, _, _)
StatusDevices_aborting(devices, status, t, bad, i) ==
    IF i > Len(devices) \/ DevExtract(i) \in bad
    THEN [devices |-> devices, trace |-> << >>]
    ELSE LET dev == _update_info_value(devices[i], DeviceInfoValueCfg, status, t)
             hook == << Ev("update_status_information", DevId(dev), 0) >>
             devices1 == [devices EXCEPT ![i] = dev]
         IN  IF DevHook(i) \in bad
             THEN [devices |-> devices1, trace |-> hook]
             ELSE LET r == dev_raise_updated(dev,
                            IF DevNotify(i) \in bad THEN bad \cup {DeviceObserver}
                                                    ELSE bad)
                  IN  IF r.raised
                      THEN [devices |-> devices1, trace |-> hook \o r.trace]
                      ELSE LET rest == StatusDevices_aborting(devices1, status, t,
                                                              bad, i + 1)
                           IN  [rest EXCEPT !.trace = hook \o r.trace \o @]

\* the loop over the sub-devices: each in its own try
RECURSIVE StatusDevices(_, _, _, _, _)
StatusDevices(devices, status, t, bad, i) ==
    IF i > Len(devices)
    THEN [devices |-> devices, trace |-> << >>]
    ELSE IF DevExtract(i) \in bad
    THEN StatusDevices(devices, status, t, bad, i + 1)
    ELSE LET dev == _update_info_value(devices[i], DeviceInfoValueCfg, status, t)
             hook == << Ev("update_status_information", DevId(dev), 0) >>
             r == IF DevHook(i) \in bad
                  THEN [trace |-> << >>, raised |-> TRUE]
                  ELSE dev_raise_updated(dev,
                          IF DevNotify(i) \in bad THEN bad \cup {DeviceObserver}
                                                  ELSE bad)
             rest == StatusDevices([devices EXCEPT ![i] = dev], status, t, bad, i + 1)
         IN  [rest EXCEPT !.trace = hook \o r.trace \o @]

\* the check without its second half: an empty status is taken for a status
fetch_failed_unless_empty(resp) == ~resp.success

\* if not success or status == {}: return
fetch_failed(resp) == ~resp.success \/ resp.res = EmptyDict

\* the protocol is noted and the block stamped
status_stamp(self, t) ==
    [self EXCEPT
        !.protocols = IF \E i \in DOMAIN @ : @[i] = "poll"
                      THEN @ ELSE Append(@, "poll"),
        !.last_updated = Some(t)]

\* the info values of the block, then self.raise_updated()
status_block(self, mgr, status, t, bad, reply) ==
    LET self3 == _update_info_value(self,
                    Without(BLOCK_INFO_VALUES, self.exclude_info_values),
                    status, t)
        self4 == IF Truthy(self3._info_value_cfg)
                 THEN _update_info_value(self3, self3._info_value_cfg[1], status, t)
                 ELSE self3
        self5 == IF self4.payload # None
                 THEN [self4 EXCEPT !.info_values =
                            Put(@, INFO_VALUE_PAYLOAD, self4.payload[1])]
                 ELSE self4
        self6 == [self5 EXCEPT !.info_values =
                            Put(@, INFO_VALUE_CLOUD_STATUS, CloudStatus(self5))]
        latest == latest_fw_version(self6, mgr, TRUE, reply)
    IN  IF latest.raised
        THEN [self |-> self6, mgr |-> latest.mgr, trace |-> << >>, raised |-> TRUE]
        ELSE
        LET self7 == [self6 EXCEPT !.info_values =
                        Put(@, INFO_VALUE_LATEST_BETA_FW_VERSION, latest.value)]
            r == raise_updated(BlockId, self7.cb_updated, bad)
        IN  [self |-> self7, mgr |-> latest.mgr, trace |-> r.trace,
             raised |-> r.raised]

\* for dev in self.devices: ...
status_devices(self, status, t, signal, bad) ==
    LET d == StatusDevices(self.devices, status, t, bad, 1)
    IN  Outcome([self EXCEPT !.devices = d.devices,
                             !.reload = @ \/ (signal /\ self.devices # << >>)],
                d.trace, FALSE)

\* the poll with the protocol noted and last_updated stamped before the
\* test of the fetch
update_status_information_stamped_first(self, mgr, resp, t, signal, bad, reply) ==
    LET self1 == status_stamp([self EXCEPT !.last_update_status_info = Some(t)], t)
    IN  IF fetch_failed(resp)
        THEN [self |-> self1, mgr |-> mgr, trace |-> << >>, raised |-> FALSE]
        ELSE
        LET b == status_block(self1, mgr, resp.res, t, bad, reply)
        IN  IF b.raised
            THEN b
            ELSE LET d == status_devices(b.self, resp.res, t, signal, bad)
                 IN  [self |-> d.self, mgr |-> b.mgr, trace |-> b.trace \o d.trace,
                      raised |-> FALSE]

update_status_information(self, mgr, resp, t, signal, bad, reply) ==
    LET self1 == [self EXCEPT !.last_update_status_info = Some(t)]
    IN  IF fetch_failed(resp)
        THEN [self |-> self1, mgr |-> mgr, trace |-> << >>, raised |-> FALSE]
        ELSE
        LET b == status_block(status_stamp(self1, t), mgr, resp.res, t, bad, reply)
        IN  IF b.raised
            THEN b
            ELSE LET d == status_devices(b.self, resp.res, t, signal, bad)
                 IN  [self |-> d.self, mgr |-> b.mgr, trace |-> b.trace \o d.trace,
                      raised |-> FALSE]

---------------------------------------------------------------------------
(* The inputs of the environment.                                          *)

\* the instants the calls are made at: the creation of the block, the
\* instant the auto-reset delay has passed since and the second after it,
\* the instant the unavailability timeout has passed and the second after
\* it, and from then on one more auto-reset delay each
Instant(k) ==
    CASE k = 0 -> 0
      [] k = 1 -> AutoSetDelay
      [] k = 2 -> AutoSetDelay + 1
      [] k = 3 -> SENSOR_UNAVAILABLE_SEC
      [] OTHER -> SENSOR_UNAVAILABLE_SEC + 1 + (k - 4) * AutoSetDelay

\* push payloads: nothing the rules read, or one position and its value
Payloads ==
    { EmptyDict, (6110 :> 0), (6110 :> 1), (112 :> 1) }

\* the answers to GET /status: a failure, an empty status, a status
StatusResponses ==
    { [success |-> FALSE, res |-> EmptyDict], [success |-> TRUE, res |-> EmptyDict],
      [success |-> TRUE, res |-> ("relays/0/ison" :> 1)] }

\* what a fetch of the status gave
Fetched(resp) ==
    IF ~resp.success THEN "failed" ELSE IF resp.res = EmptyDict THEN "empty" ELSE "status"

\* a firmware repository that answers with a catalog
GoodReplies(type) ==
    { [failed |-> FALSE,
       data |-> Some(type :> [version |-> "20200309-104051/v1.6.0@43056d58",
                              beta_ver |-> "20200320-123430/v1.6.1-rc1@bc2ad6a1",
                              beta_url |-> "http://repo.shelly.cloud/beta.zip"])] }

\* observers that never raise
NoBadObservers == { {} }

\* the observers that raise during a call: none, the block's first, or
\* the sub-devices' one
BadObservers(self) ==
    { {}, {DeviceObserver} }
        \cup (IF self.cb_updated = << >> THEN {} ELSE { {self.cb_updated[1]} })

\* whether a sub-device may set the reload flag during this call
Signals(self) == IF self.gen < MaxReloads THEN BOOLEAN ELSE {FALSE}

\* the answers to the GET /settings of a reload, when the call sends one
ReloadResponses(self, signal, resps) ==
    IF (self.reload \/ (signal /\ self.devices # << >>)) /\ ~Battery(self.type)
    THEN resps
    ELSE { [success |-> FALSE, res |-> EmptyDict] }

\* what the repository answers, when the call asks it
Asked(mgr, replies) ==
    IF mgr._downloaded THEN { [failed |-> TRUE, data |-> None] } ELSE replies

NoThreads == << >>

NoCycles == << >>

---------------------------------------------------------------------------
(* The calls on a block that one thread drives: each runs to its end.      *)

\* the block once the platform has appended its observers to cb_updated
Observed(self) == [self EXCEPT !.cb_updated = [i \in 1..MaxObservers |-> i]]

\* a block of one of the models types, constructed and observed
InitBlock(types, resps) ==
    /\ now = 0
    /\ ticks = 0
    /\ \E type \in types :
        \E resp \in (IF Battery(type) THEN { [success |-> FALSE, res |-> EmptyDict] }
                     ELSE resps) :
            block = Observed(Block(type, resp))
    /\ call = NoCall
    /\ fw = NewFirmwareManager
    /\ threads = NoThreads
    /\ cycles = NoCycles

\* time passes, until a later instant
Tick ==
    /\ \E k \in (ticks + 1)..MaxTicks :
            /\ ticks' = k
            /\ now' = Instant(k)
    /\ call' = NoCall
    /\ UNCHANGED <<block, fw, threads, cycles>>

\* a push payload arrives
DoCoap(payloads, signals, resps) ==
    /\ \E payload \in payloads, signal \in signals :
        \E resp \in ReloadResponses(block, signal, resps) :
            LET out == update_coap(block, payload, BlockAddr, now, signal, resp)
            IN  /\ block' = out.self
                /\ call' = Called("update_coap", "payload", out)
    /\ UNCHANGED <<now, ticks, fw, threads, cycles>>

\* the scheduler polls the block
DoPollOf(resps, signals, bads, replies) ==
    /\ \E resp \in resps, signal \in signals, bad \in bads,
          reply \in Asked(fw, replies) :
            LET out == update_status_information(block, fw, resp, now, signal,
                                                 bad, reply)
            IN  /\ block' = out.self
                /\ fw' = out.mgr
                /\ call' = Called("update_status_information", Fetched(resp), out)
    /\ UNCHANGED <<now, ticks, threads, cycles>>

DoPoll(signals, bads, replies) == DoPollOf(StatusResponses, signals, bads, replies)

\* the scheduler runs the auto-reset rules
DoLoop(bads) ==
    /\ \E bad \in bads :
            LET out == loop(block, now, bad)
            IN  /\ block' = out.self
                /\ call' = Called("loop", "", out)
    /\ UNCHANGED <<now, ticks, fw, threads, cycles>>

\* the scheduler checks the availability
DoCheckAvailable(bads) ==
    /\ \E bad \in bads :
            LET out == check_available(block, now, bad)
            IN  /\ block' = out.self
                /\ call' = Called("check_available", "", out)
    /\ UNCHANGED <<now, ticks, fw, threads, cycles>>

---------------------------------------------------------------------------
(* Spec: a block whose observers and whose firmware repository work, under *)
(* every order of the calls and of the passing of time.                    *)

\* one model whose topology follows its settings, one that sleeps and has
\* the auto-reset rule
BlockTypes == {"SHSW-25", "SHDW-2"}

Init == InitBlock(BlockTypes, SettingsResponses)

Coap == DoCoap(Payloads, Signals(block), SettingsResponses)

Poll == DoPoll(Signals(block), NoBadObservers, GoodReplies(block.type))

Loop == DoLoop(NoBadObservers)

CheckAvailable == DoCheckAvailable(NoBadObservers)

Next == Tick \/ Coap \/ Poll \/ Loop \/ CheckAvailable

Spec == Init /\ [][Next]_vars

---------------------------------------------------------------------------
(* The properties of Spec.                                                 *)

\* how many events of a kind on an object a call's trace holds
Count(trace, ev, who) ==
    Cardinality({ i \in DOMAIN trace : trace[i].ev = ev /\ trace[i].who = who })

\* how many events of a kind a call's trace holds
CountAll(trace, ev) == Cardinality({ i \in DOMAIN trace : trace[i].ev = ev })

\* C1: available() is true whenever no unavailability timeout is set,
\* whatever last_updated is; with a timeout it is false for a block never
\* updated and otherwise true exactly when now - last_updated <= timeout;
\* and this is the value check_available() records.
C1_Available ==
    LET timeout == block.unavailable_after_sec
        updated == block.last_updated
        expected == IF timeout = None THEN TRUE
                    ELSE IF updated = None THEN FALSE
                    ELSE now - updated[1] <= timeout[1]
    IN  /\ available(block, now) = expected
        /\ call.name = "check_available" => block._available = Some(expected)

\* a block checked when it was stale by exactly its timeout, found available
C1_Witness ==
    /\ call.name = "check_available"
    /\ block.unavailable_after_sec = Some(SENSOR_UNAVAILABLE_SEC)
    /\ block.last_updated # None
    /\ now - block.last_updated[1] = SENSOR_UNAVAILABLE_SEC
    /\ block._available = Some(TRUE)

\* C2, as claimed: after a loop() tick at a time t >= T + 60, where T is
\* when the vibration flag was last set, the flag has its target value 0.
C2_ResetAtDelay ==
    (/\ call.name = "loop"
     /\ INFO_VALUE_VIBRATION \in DOMAIN block.info_values_updated
     /\ now >= block.info_values_updated[INFO_VALUE_VIBRATION] + AutoSetDelay)
        => block.info_values[INFO_VALUE_VIBRATION] = 0

\* C2, amended: a loop() tick at a time t <= T + 60 leaves the value that
\* was set at T as it is and notifies nobody; the first loop() tick at a
\* time t > T + 60 sets it to its target 0 and calls raise_updated exactly
\* once; a tick that finds the target value notifies nobody.
C2_ResetAfterDelay ==
    [][ call'.name = "loop" =>
          LET iv == INFO_VALUE_VIBRATION
              fires == /\ Truthy(block._info_value_cfg)
                       /\ iv \in DOMAIN block._info_value_cfg[1]
                       /\ iv \in DOMAIN block.info_values_updated
                       /\ block.info_values[iv] # 0
                       /\ now > block.info_values_updated[iv] + AutoSetDelay
          IN  IF fires
              THEN /\ block'.info_values[iv] = 0
                   /\ CountAll(call'.trace, "raise_updated") = 1
              ELSE /\ block'.info_values = block.info_values
                   /\ call'.trace = << >> ]_vars

\* a loop() tick that has just reset the flag, more than 60 s after it was set
C2_Witness ==
    /\ call.name = "loop"
    /\ CountAll(call.trace, "raise_updated") = 1
    /\ INFO_VALUE_VIBRATION \in DOMAIN block.info_values
    /\ block.info_values[INFO_VALUE_VIBRATION] = 0
    /\ now = block.info_values_updated[INFO_VALUE_VIBRATION] + AutoSetDelay + 1

\* C3: a poll whose fetch failed or gave an empty status leaves
\* last_updated, the block's info values and their timestamps and the
\* sub-devices (so their info values) as they were, and calls no observer.
C3_FailedPoll ==
    [][ (call'.name = "update_status_information"
            /\ call'.arg \in {"failed", "empty"}) =>
          /\ block'.last_updated = block.last_updated
          /\ block'.info_values = block.info_values
          /\ block'.info_values_updated = block.info_values_updated
          /\ block'.devices = block.devices
          /\ call'.trace = << >>
          /\ ~call'.raised ]_vars

\* a poll that gave an empty status, on a block with sub-devices that was
\* updated before
C3_Witness ==
    /\ call.name = "update_status_information"
    /\ call.arg = "empty"
    /\ block.devices # << >>
    /\ block.last_updated # None
    /\ block.last_update_status_info # None
    /\ block.last_update_status_info[1] > block.last_updated[1]

\* C17: a loop() tick that finds the vibration flag off its target and
\* last updated more than the delay ago sets the flag to its target, stamps
\* it with the time of the tick and then notifies the observers.
C17_ResetStamped ==
    [][ (/\ call'.name = "loop"
         /\ Truthy(block._info_value_cfg)
         /\ INFO_VALUE_VIBRATION \in DOMAIN block._info_value_cfg[1]
         /\ AutoSetFires(block, INFO_VALUE_VIBRATION,
                         block._info_value_cfg[1][INFO_VALUE_VIBRATION], now))
          => /\ block'.info_values[INFO_VALUE_VIBRATION] = 0
             /\ block'.info_values_updated[INFO_VALUE_VIBRATION] = now
             /\ CountAll(call'.trace, "raise_updated") = 1 ]_vars

\* C16: a push cycle, or a poll cycle whose fetch succeeded, that starts
\* with the reload flag set composes the block anew and ends with the flag
\* false.
C16_ReloadHandled ==
    [][ (/\ block.reload
         /\ \/ call'.name = "update_coap"
            \/ (call'.name = "update_status_information"
                    /\ call'.arg \notin {"failed", "empty"}))
          => (~block'.reload /\ block'.gen = block.gen + 1) ]_vars

\* C19, as claimed: a poll whose fetch failed or gave an empty status leaves
\* every field of the block and of its sub-devices as it was,
\* last_update_status_info too.
C19_FailedPollNoEffect ==
    [][ (call'.name = "update_status_information"
            /\ call'.arg \in {"failed", "empty"})
          => block' = block ]_vars

\* C19, amended: a poll whose fetch failed or gave an empty status sets
\* last_update_status_info to the time of the call and leaves every other
\* field of the block and of its sub-devices, and the firmware manager, as
\* they were.
C19_FailedPollFrame ==
    [][ (call'.name = "update_status_information"
            /\ call'.arg \in {"failed", "empty"})
          => /\ block' = [block EXCEPT !.last_update_status_info = Some(now)]
             /\ fw' = fw ]_vars

\* a failed fetch on a block that has sub-devices with values and was
\* polled before, at an earlier time
C19_Witness ==
    /\ call.name = "update_status_information"
    /\ call.arg = "failed"
    /\ block.last_update_status_info = Some(now)
    /\ block.protocols # << >>
    /\ block.last_updated # None
    /\ block.last_updated[1] < now
    /\ \E i \in DOMAIN block.devices : block.devices[i].info_values # EmptyDict

\* the sub-devices _setup gives a block of this model with these settings
Topology(self) ==
    LET fresh == SetupBranch([NewBlock(self.type) EXCEPT !.settings = self.settings])
    IN  [ i \in 1..Len(fresh.devices) |->
            [kind |-> fresh.devices[i].kind, id |-> fresh.devices[i].id,
             lazy_load |-> fresh.devices[i].lazy_load] ]

\* the sub-devices a block has, as _setup names them
Owned(self) ==
    [ i \in 1..Len(self.devices) |->
        [kind |-> self.devices[i].kind, id |-> self.devices[i].id,
         lazy_load |-> self.devices[i].lazy_load] ]

\* the places in a trace of the events of some kinds
Places(trace, evs) == { i \in DOMAIN trace : trace[i].ev \in evs }

\* C4: a reload (a push cycle that recomposes the block) removes from the
\* registry and closes every sub-device the block owned, each exactly once
\* and nothing else, all of it before the first new sub-device is
\* constructed or registered, and leaves the block with exactly the
\* sub-devices _setup gives for its model and the settings it then has.
C4_Reload ==
    [][ (call'.name = "update_coap" /\ block'.gen # block.gen) =>
          LET trace == call'.trace
          IN  /\ \A i \in DOMAIN block.devices :
                    /\ Count(trace, "close", DevId(block.devices[i])) = 1
                    /\ Count(trace, "remove_device", DevId(block.devices[i])) = 1
              /\ CountAll(trace, "close") = Len(block.devices)
              /\ CountAll(trace, "remove_device") = Len(block.devices)
              /\ \A i \in Places(trace, {"close", "remove_device"}) :
                    \A j \in Places(trace, {"new", "add_device"}) : i < j
              /\ Owned(block') = Topology(block')
              /\ \A i \in DOMAIN block'.devices : block'.devices[i].gen = block'.gen
      ]_vars

\* a reload that closed two relays and left a roller
C4_Witness ==
    /\ call.name = "update_coap"
    /\ block.gen = 1
    /\ \E i \in DOMAIN call.trace :
            call.trace[i].ev = "close" /\ call.trace[i].who.kind = "Relay"
    /\ \E i \in DOMAIN block.devices : block.devices[i].kind = "Roller"
    /\ CountAll(call.trace, "add_device") = Len(block.devices)

\* C10: last_updated never decreases and never returns to None, and only
\* a push payload or a poll that fetched a status changes it.
C10_LastUpdated ==
    [][ /\ block.last_updated # None =>
            /\ block'.last_updated # None
            /\ block'.last_updated[1] >= block.last_updated[1]
        /\ block'.last_updated # block.last_updated =>
            \/ call'.name = "update_coap"
            \/ call'.name = "update_status_information" /\ call'.arg = "status"
      ]_vars

\* a block updated after its creation and reloaded, then looped
C10_Witness ==
    /\ block.last_updated # None
    /\ block.last_updated[1] > 0
    /\ block.gen > 0
    /\ call.name = "loop"

---------------------------------------------------------------------------
(* SpecTopology: the composition of a block of every model, from every     *)
(* answer to GET /settings, at its creation and at a reload.               *)

InitTopology == InitBlock(SetupTypes \cup {UnknownType}, AllSettingsResponses)

\* a push cycle during which a sub-device asks for a reload
Recompose == DoCoap({EmptyDict}, Signals(block), AllSettingsResponses)

\* a poll cycle, during which a sub-device may ask for a reload
PollTopology == DoPoll(Signals(block), NoBadObservers, GoodReplies(block.type))

NextTopology == Recompose \/ PollTopology

SpecTopology == InitTopology /\ [][NextTopology]_vars

\* the models whose topology _setup takes from the settings
SettingsTypes == {"SHSW-21", "SHSW-25", "SHRGBW2"}

\* the block holds no settings: the fetch failed, or it answered {}
NoSettings == block.settings = None \/ block.settings = Some(EmptyDict)

\* C5: a block of a model whose topology follows the settings (SHSW-21,
\* SHSW-25, SHRGBW2) has no sub-device while its settings are None or
\* empty.
C5_NoDevices ==
    (block.type \in SettingsTypes /\ NoSettings)
        => block.devices = << >>

\* C15: a block of a model _setup has no branch for is composed without
\* an error from every answer to GET /settings, and _setup sets nothing
\* but the settings; the block has no sub-device and no unavailability
\* timeout, is no sleep device, and available() is true at every instant,
\* updated or not.
C15_UnknownModel ==
    /\ \A resp \in AllSettingsResponses :
            _setup(NewBlock(UnknownType), resp)
                = poll_settings(NewBlock(UnknownType), resp)
    /\ block.type = UnknownType
        => /\ block.devices = << >>
           /\ block.unavailable_after_sec = None
           /\ ~block.sleep_device
           /\ \A k \in 0..(MaxTicks + 1) : available(block, Instant(k))
           /\ ~call.raised

\* a block of an unknown model, polled with success
C15_Witness ==
    /\ block.type = UnknownType
    /\ call.name = "update_status_information"
    /\ block.last_updated # None

---------------------------------------------------------------------------
(* SpecObservers: the same calls, with observers that may raise and a      *)
(* firmware repository that may fail.                                      *)

\* a push payload that reports a vibration
CoapObservers == DoCoap({ (6110 :> 1) }, {FALSE}, SettingsResponses)

PollObservers == DoPoll({FALSE}, BadObservers(block), CatalogReplies(block.type))

LoopObservers == DoLoop(BadObservers(block))

CheckAvailableObservers == DoCheckAvailable(BadObservers(block))

NextObservers ==
    Tick \/ CoapObservers \/ PollObservers \/ LoopObservers \/ CheckAvailableObservers

\* a block of the model that has sub-devices and an auto-reset rule
InitObservers == InitBlock({"SHDW-2"}, SettingsResponses)

SpecObservers == InitObservers /\ [][NextObservers]_vars

\* how many times a call invoked the observer o of the object who
Invoked(trace, who, o) ==
    Cardinality({ i \in DOMAIN trace :
        trace[i].ev = "callback" /\ trace[i].who = who /\ trace[i].i = o })

\* C6: when one of the observers of a block raises during a notification,
\* every other observer is still invoked for it, and the cycle that
\* notified (poll, availability check, auto-reset loop) runs to its end:
\* in a call that notified the block, each observer of the block is invoked
\* once per notification, and the call does not end by an exception.
C6_ObserverIsolation ==
    (/\ call.name \in {"update_status_information", "check_available", "loop"}
     /\ Count(call.trace, "raise_updated", BlockId) > 0)
        => /\ ~call.raised
           /\ \A k \in DOMAIN block.cb_updated :
                Invoked(call.trace, BlockId, block.cb_updated[k])
                    = Count(call.trace, "raise_updated", BlockId)

\* C9: check_available records the availability and notifies each observer
\* of the block and the observer of each sub-device exactly once when
\* available() differs from what the previous check recorded (nothing,
\* after the creation), and notifies nobody and changes nothing when it
\* does not differ.
C9_CheckAvailable ==
    [][ call'.name = "check_available" =>
            IF Some(available(block, now)) # block._available
            THEN /\ block'._available = Some(available(block, now))
                 /\ \A k \in DOMAIN block.cb_updated :
                        Invoked(call'.trace, BlockId, block.cb_updated[k]) = 1
                 /\ \A d \in DOMAIN block.devices :
                        Invoked(call'.trace, DevId(block.devices[d]),
                                DeviceObserver) = 1
                 /\ CountAll(call'.trace, "callback")
                        = Len(block.cb_updated) + Len(block.devices)
            ELSE /\ call'.trace = << >>
                 /\ block' = block ]_vars

---------------------------------------------------------------------------
(* SpecFirmware: the threads of the platform reading the property          *)
(* _list_firmwares of the one FirmwareManager, as version() and url() do,  *)
(* one statement at a time.  A thread is at "idle" outside the property,   *)
(* then at the statement it is about to run; "value" is what its last      *)
(* access returned.                                                        *)

ThreadIds == 1..MaxThreads

NewThread == [pc |-> "idle", got |-> None, value |-> None, calls |-> 0]

InitFirmware ==
    /\ now = 0
    /\ ticks = 0
    /\ block = Observed(Block("SHSW-25", [success |-> FALSE, res |-> EmptyDict]))
    /\ call = NoCall
    /\ fw = NewFirmwareManager
    /\ threads = [t \in ThreadIds |-> NewThread]
    /\ cycles = NoCycles

\* version() or url() reads self._list_firmwares
Access ==
    /\ \E t \in ThreadIds :
        /\ threads[t].pc = "idle"
        /\ threads[t].calls < MaxCalls
        /\ threads' = [threads EXCEPT ![t].pc = "check", ![t].calls = @ + 1]
    /\ UNCHANGED <<now, ticks, block, call, fw, cycles>>

\* if self._downloaded: return self._firmwares
CheckDownloaded ==
    /\ \E t \in ThreadIds :
        /\ threads[t].pc = "check"
        /\ threads' = IF fw._downloaded
                      THEN [threads EXCEPT ![t].pc = "idle",
                                           ![t].value = Some(fw._firmwares)]
                      ELSE [threads EXCEPT ![t].pc = "acquire"]
    /\ UNCHANGED <<now, ticks, block, call, fw, cycles>>

\* with self._lock: the thread waits until the lock is free
Acquire ==
    /\ \E t \in ThreadIds :
        /\ threads[t].pc = "acquire"
        /\ fw._lock = None
        /\ fw' = [fw EXCEPT !._lock = Some(t)]
        /\ threads' = [threads EXCEPT ![t].pc = "test"]
    /\ UNCHANGED <<now, ticks, block, call, cycles>>

\* if self._firmwares is None:
TestNone ==
    /\ \E t \in ThreadIds :
        /\ threads[t].pc = "test"
        /\ threads' = [threads EXCEPT ![t].pc =
                            IF fw._firmwares = None THEN "fetch" ELSE "release"]
    /\ UNCHANGED <<now, ticks, block, call, fw, cycles>>

\* self._http_get(_URL_SHELLY_FIRMWARES)
Fetch ==
    /\ \E t \in ThreadIds :
        /\ threads[t].pc = "fetch"
        /\ \E reply \in CatalogReplies(block.type) :
            /\ threads' = [threads EXCEPT ![t].pc = "store",
                                          ![t].got = _http_get(reply)]
            /\ fw' = [fw EXCEPT !.fetches = @ + 1, !.failed = @ \/ reply.failed]
    /\ UNCHANGED <<now, ticks, block, call, cycles>>

\* self._firmwares = <what _http_get returned>
Store ==
    /\ \E t \in ThreadIds :
        /\ threads[t].pc = "store"
        /\ fw' = [fw EXCEPT !._firmwares = threads[t].got]
        /\ threads' = [threads EXCEPT ![t].pc = "mark"]
    /\ UNCHANGED <<now, ticks, block, call, cycles>>

\* self._downloaded = True
Mark ==
    /\ \E t \in ThreadIds :
        /\ threads[t].pc = "mark"
        /\ fw' = [fw EXCEPT !._downloaded = TRUE]
        /\ threads' = [threads EXCEPT ![t].pc = "release"]
    /\ UNCHANGED <<now, ticks, block, call, cycles>>

\* return self._firmwares, leaving the with block
Release ==
    /\ \E t \in ThreadIds :
        /\ threads[t].pc = "release"
        /\ fw' = [fw EXCEPT !._lock = None]
        /\ threads' = [threads EXCEPT ![t].pc = "idle",
                                      ![t].value = Some(fw._firmwares)]
    /\ UNCHANGED <<now, ticks, block, call, cycles>>

NextFirmware ==
    Access \/ CheckDownloaded \/ Acquire \/ TestNone \/ Fetch \/ Store \/ Mark
        \/ Release

SpecFirmware == InitFirmware /\ [][NextFirmware]_vars

\* C7: under every interleaving of the threads that call version() and
\* url(), _http_get is executed at most once: no thread is about to fetch
\* once a fetch was made, and the fetches never number more than one.
C7_FetchOnce ==
    /\ fw.fetches <= 1
    /\ \A t \in ThreadIds : threads[t].pc = "fetch" => fw.fetches = 0

---------------------------------------------------------------------------
(* SpecCycles: the scheduler's thread polling a block while the thread     *)
(* that receives the push payloads calls update_coap on it.  Block holds   *)
(* no lock, so the statements of the two calls interleave; each cycle is   *)
(* at "idle" outside its call, then at the group of statements it is       *)
(* about to run.                                                           *)

NewCycles ==
    [poll |-> [pc |-> "idle", status |-> EmptyDict, runs |-> 0],
     coap |-> [pc |-> "idle", payload |-> EmptyDict, runs |-> 0]]

InitCycles ==
    /\ now = 0
    /\ ticks = 0
    /\ \E resp \in SettingsResponses : block = Observed(Block("SHSW-25", resp))
    /\ call = NoCall
    /\ fw = NewFirmwareManager
    /\ threads = NoThreads
    /\ cycles = NewCycles

\* update_status_information begins: the time of the poll, the fetch, the
\* return when it failed
PollStart ==
    /\ cycles.poll.pc = "idle"
    /\ cycles.poll.runs < MaxCycles
    /\ \E resp \in StatusResponses :
        /\ block' = [block EXCEPT !.last_update_status_info = Some(now)]
        /\ cycles' = [cycles EXCEPT
                        !.poll.pc = IF fetch_failed(resp) THEN "idle" ELSE "stamp",
                        !.poll.status = resp.res,
                        !.poll.runs = @ + 1]
    /\ UNCHANGED <<now, ticks, call, fw, threads>>

PollStamp ==
    /\ cycles.poll.pc = "stamp"
    /\ block' = status_stamp(block, now)
    /\ cycles' = [cycles EXCEPT !.poll.pc = "block"]
    /\ UNCHANGED <<now, ticks, call, fw, threads>>

PollBlock ==
    /\ cycles.poll.pc = "block"
    /\ \E reply \in Asked(fw, GoodReplies(block.type)) :
        LET out == status_block(block, fw, cycles.poll.status, now, {}, reply)
        IN  /\ block' = out.self
            /\ fw' = out.mgr
    /\ cycles' = [cycles EXCEPT !.poll.pc = "devices"]
    /\ UNCHANGED <<now, ticks, call, threads>>

PollDevices ==
    /\ cycles.poll.pc = "devices"
    /\ \E signal \in Signals(block) :
        block' = status_devices(block, cycles.poll.status, now, signal, {}).self
    /\ cycles' = [cycles EXCEPT !.poll.pc = "idle"]
    /\ UNCHANGED <<now, ticks, call, fw, threads>>

\* update_coap begins: a payload was received
CoapStart ==
    /\ cycles.coap.pc = "idle"
    /\ cycles.coap.runs < MaxCycles
    /\ \E payload \in { (6110 :> 1), (112 :> 1) } :
        cycles' = [cycles EXCEPT !.coap.pc = "stamp",
                                 !.coap.payload = payload,
                                 !.coap.runs = @ + 1]
    /\ UNCHANGED <<now, ticks, block, call, fw, threads>>

CoapStamp ==
    /\ cycles.coap.pc = "stamp"
    /\ block' = coap_stamp(block, BlockAddr, now)
    /\ cycles' = [cycles EXCEPT !.coap.pc = "block"]
    /\ UNCHANGED <<now, ticks, call, fw, threads>>

CoapBlock ==
    /\ cycles.coap.pc = "block"
    /\ block' = coap_block(block, cycles.coap.payload, now)
    /\ cycles' = [cycles EXCEPT !.coap.pc = "devices"]
    /\ UNCHANGED <<now, ticks, call, fw, threads>>

CoapDevices ==
    /\ cycles.coap.pc = "devices"
    /\ \E signal \in Signals(block) :
        block' = coap_devices(block, cycles.coap.payload, BlockAddr, now, signal)
    /\ cycles' = [cycles EXCEPT !.coap.pc = "reload"]
    /\ UNCHANGED <<now, ticks, call, fw, threads>>

CoapReload ==
    /\ cycles.coap.pc = "reload"
    /\ \E resp \in ReloadResponses(block, FALSE, SettingsResponses) :
        block' = coap_reload(block, cycles.coap.payload, now, resp).self
    /\ cycles' = [cycles EXCEPT !.coap.pc = "idle"]
    /\ UNCHANGED <<now, ticks, call, fw, threads>>

NextCycles ==
    Tick \/ PollStart \/ PollStamp \/ PollBlock \/ PollDevices
        \/ CoapStart \/ CoapStamp \/ CoapBlock \/ CoapDevices \/ CoapReload

SpecCycles == InitCycles /\ [][NextCycles]_vars

\* the cycle has written last_updated and has writes left to make
Between(cycle) == cycle.pc \in {"block", "devices", "reload"}

\* the step is one of the writes of the cycle to last_updated, the info
\* values or the list of sub-devices
Writes(before, after) == before.pc \in {"stamp", "block", "devices", "reload"}
                            /\ after.pc # before.pc

\* C8: the writes of a poll and of a push cycle of one block to its info
\* values, its last_updated and its list of sub-devices are serialized: no
\* cycle writes between the first and the last write of the other.
C8_SingleWriter ==
    [][ /\ Writes(cycles.poll, cycles'.poll) => ~Between(cycles.coap)
        /\ Writes(cycles.coap, cycles'.coap) => ~Between(cycles.poll) ]_vars

---------------------------------------------------------------------------
(* SpecStatus: a block polled with statuses that report the cloud and the  *)
(* firmware, and asked about firmware updates, with a firmware repository  *)
(* that may fail.                                                          *)

\* what a status may report of the cloud: under a key, a value or nothing
CloudReports ==
    { e @@ c : e \in { EmptyDict, ("cloud/enabled" :> TRUE), ("cloud/enabled" :> FALSE) },
               c \in { EmptyDict, ("cloud/connected" :> TRUE),
                       ("cloud/connected" :> FALSE) } }

\* what a status may report of the firmware: the version installed, and
\* the version the device found to be the latest ("" before it has asked)
UpdateReports ==
    { o @@ n : o \in { EmptyDict, ("update/old_version" :> "20200309-104051/v1.6.0@43056d58") },
               n \in { EmptyDict, ("update/new_version" :> ""),
                       ("update/new_version" :> "20200309-104051/v1.6.0@43056d58"),
                       ("update/new_version" :> "20200320-123430/v1.6.1-rc1@bc2ad6a1") } }

\* the answers to GET /status
StatusReports ==
    { [success |-> FALSE, res |-> EmptyDict] }
        \cup { [success |-> TRUE, res |-> c @@ u] : c \in CloudReports, u \in UpdateReports }

\* the answers of the repository: also a catalog without the model
StatusCatalogs(type) ==
    CatalogReplies(type)
        \cup { [failed |-> FALSE,
                data |-> Some(UnknownType :> [version |-> "20200309-104051/v1.6.0@43056d58"])] }

InitStatus == InitBlock({"SHBLB-1"}, { [success |-> FALSE, res |-> EmptyDict] })

PollStatus == DoPollOf(StatusReports, {FALSE}, NoBadObservers, StatusCatalogs(block.type))

\* the platform asks whether the block has a firmware update
HasFwUpdate ==
    /\ \E beta \in BOOLEAN, reply \in Asked(fw, StatusCatalogs(block.type)) :
        LET out == has_fw_update(block, fw, beta, reply)
        IN  /\ fw' = out.mgr
            /\ call' = [name |-> "has_fw_update",
                        arg |-> IF beta THEN "beta" ELSE "",
                        raised |-> out.raised, trace |-> << >>,
                        latest |-> out.latest, current |-> out.current,
                        result |-> out.value]
    /\ UNCHANGED <<now, ticks, block, threads, cycles>>

\* the user starts a firmware update
UpdateFirmware ==
    /\ \E beta \in BOOLEAN, reply \in Asked(fw, StatusCatalogs(block.type)) :
        LET out == update_firmware(block, fw, beta, reply)
        IN  /\ fw' = out.mgr
            /\ call' = [name |-> "update_firmware",
                        arg |-> IF beta THEN "beta" ELSE "",
                        raised |-> out.raised, trace |-> << >>,
                        requests |-> out.requests]
    /\ UNCHANGED <<now, ticks, block, threads, cycles>>

NextStatus == PollStatus \/ HasFwUpdate \/ UpdateFirmware

SpecStatus == InitStatus /\ [][NextStatus]_vars

\* the value the block holds under a name is the truth
Holds(self, name) == Get(self.info_values, name) = Some(TRUE)

\* C11: after a poll whose fetch gave a status, the cloud status of the
\* block is "disabled" when its cloud-enabled value is false or absent,
\* whatever the cloud-connected value is, "connected" when both values are
\* true, and "disconnected" when cloud-enabled is true and cloud-connected
\* is false or absent.
C11_CloudStatus ==
    (call.name = "update_status_information" /\ call.arg = "status")
        => /\ ~Holds(block, INFO_VALUE_CLOUD_ENABLED)
                => Get(block.info_values, INFO_VALUE_CLOUD_STATUS) = Some("disabled")
           /\ (Holds(block, INFO_VALUE_CLOUD_ENABLED)
                    /\ Holds(block, INFO_VALUE_CLOUD_CONNECTED))
                => Get(block.info_values, INFO_VALUE_CLOUD_STATUS) = Some("connected")
           /\ (Holds(block, INFO_VALUE_CLOUD_ENABLED)
                    /\ ~Holds(block, INFO_VALUE_CLOUD_CONNECTED))
                => Get(block.info_values, INFO_VALUE_CLOUD_STATUS) = Some("disconnected")

\* a poll left the block with the cloud disabled and connected
C11_Witness ==
    /\ call.name = "update_status_information"
    /\ call.arg = "status"
    /\ Get(block.info_values, INFO_VALUE_CLOUD_ENABLED) = Some(FALSE)
    /\ Get(block.info_values, INFO_VALUE_CLOUD_CONNECTED) = Some(TRUE)
    /\ Get(block.info_values, INFO_VALUE_CLOUD_STATUS) = Some("disabled")

\* C12: has_fw_update(), for the beta and for the stable version, returns
\* a true value exactly when the current version (fw_version()) and the
\* latest version (latest_fw_version()) are both present, a version string
\* that is not empty, and differ as strings.
C12_HasFwUpdate ==
    (call.name = "has_fw_update" /\ ~call.raised)
        => /\ call.current = Get(block.info_values, INFO_VALUE_FW_VERSION)
           /\ call.arg = ""
                => call.latest = Get(block.info_values,
                                     INFO_VALUE_LATEST_FIRMWARE_VERSION)
           /\ call.result = "True"
                <=> (/\ call.latest # None
                     /\ call.latest # Some("")
                     /\ call.current # None
                     /\ call.current # Some("")
                     /\ call.latest # call.current)

\* the block was asked while it held a current version and another latest
C12_Witness ==
    /\ call.name = "has_fw_update"
    /\ call.current = Some("v1.6.0")
    /\ call.latest = Some("v1.6.1-rc1")
    /\ call.result = "True"

\* what version() and url() give for every model, on any later answer of
\* the repository: no value, no exception, the manager as it was
NoVersions(mgr) ==
    \A type \in SetupTypes \cup {UnknownType}, beta \in BOOLEAN :
      \A reply \in Asked(mgr, StatusCatalogs(type)) :
        /\ version(mgr, type, beta, reply)
                = [mgr |-> mgr, value |-> None, raised |-> FALSE]
        /\ url(mgr, type, beta, reply)
                = [mgr |-> mgr, value |-> None, raised |-> FALSE]

HasBeta(mgr, type) ==
    /\ mgr._firmwares # None
    /\ type \in DOMAIN mgr._firmwares[1]
    /\ "beta_ver" \in DOMAIN mgr._firmwares[1][type]

\* C20: a call of update_firmware that returns has sent exactly one
\* request: /ota?url=<beta_url> of the catalog entry of the block's model
\* when a beta update was asked for and that entry holds a beta version,
\* /ota?update=1 in every other case.
C20_Request ==
    (call.name = "update_firmware" /\ ~call.raised)
        => call.requests =
             IF call.arg = "beta" /\ HasBeta(fw, block.type)
             THEN << "/ota?url=" \o fw._firmwares[1][block.type].beta_url >>
             ELSE << "/ota?update=1" >>

---------------------------------------------------------------------------
(* SpecSettings: the fetches of the settings of a block, by a call of      *)
(* poll_settings and by the reload of a push cycle; the call records what  *)
(* the device answered.                                                    *)

SettingsModels == {"SHSW-25", "SHRGBW2", "SHSW-1", "SHDW-2", "SHBTN-1", UnknownType}

\* the first fetch, in __init__, failed
InitSettings == InitBlock(SettingsModels, { [success |-> FALSE, res |-> EmptyDict] })

PollSettings ==
    /\ \E resp \in AllSettingsResponses :
        /\ block' = poll_settings(block, resp)
        /\ call' = [name |-> "poll_settings", arg |-> "", raised |-> FALSE,
                    trace |-> << >>, resp |-> resp, signal |-> FALSE]
    /\ UNCHANGED <<now, ticks, fw, threads, cycles>>

CoapSettings ==
    /\ \E signal \in Signals(block), resp \in AllSettingsResponses :
        LET out == update_coap(block, EmptyDict, BlockAddr, now, signal, resp)
        IN  /\ block' = out.self
            /\ call' = [name |-> "update_coap", arg |-> "payload",
                        raised |-> out.raised, trace |-> out.trace,
                        resp |-> resp, signal |-> signal]
    /\ UNCHANGED <<now, ticks, fw, threads, cycles>>

NextSettings == PollSettings \/ CoapSettings

SpecSettings == InitSettings /\ [][NextSettings]_vars

\* the settings after a fetch that the device answered with resp
Fetching(self, resp) == IF resp.success THEN Some(resp.res) ELSE self.settings

\* C14: a battery-powered block never has settings, whatever its device
\* would answer; on any other block a call of poll_settings changes nothing
\* but the settings, which become what the device answered when the fetch
\* succeeded and stay when it failed; so do the settings in a reload, and
\* they stay in a push cycle without a reload.
C14_Settings ==
    [][ /\ Battery(block.type) => (block.settings = None /\ block'.settings = None)
        /\ (call'.name = "poll_settings" /\ ~Battery(block.type))
            => block' = [block EXCEPT !.settings = Fetching(block, call'.resp)]
        /\ (call'.name = "update_coap" /\ ~Battery(block.type))
            => block'.settings =
                 IF block.reload \/ (call'.signal /\ block.devices # << >>)
                 THEN Fetching(block, call'.resp)
                 ELSE block.settings ]_vars

\* a failed fetch left the settings an earlier fetch had stored
C14_Witness ==
    /\ call.name = "poll_settings"
    /\ ~call.resp.success
    /\ block.settings = Some([mode |-> "roller"])

---------------------------------------------------------------------------
(* SpecDevices: poll cycles of a block with several sub-devices, in which  *)
(* one step of one sub-device may raise; the call records which.           *)

DeviceModels == {"SHSW-25", "SHSW-1", "SHIX3-1"}

InitDevices == InitBlock(DeviceModels, SettingsResponses)

\* the answers to GET /status that report the relay off or on
RelayReports ==
    { [success |-> TRUE, res |-> ("relays/0/ison" :> v)] : v \in {0, 1} }

\* nothing raises, or one step of one sub-device does
DeviceFaults(self) ==
    { {} } \cup { {DevExtract(i)} : i \in DOMAIN self.devices }
           \cup { {DevHook(i)} : i \in DOMAIN self.devices }
           \cup { {DevNotify(i)} : i \in DOMAIN self.devices }

PollFaulty ==
    /\ \E resp \in RelayReports, bad \in DeviceFaults(block),
          reply \in Asked(fw, GoodReplies(block.type)) :
            LET out == update_status_information(block, fw, resp, now, FALSE,
                                                 bad, reply)
            IN  /\ block' = out.self
                /\ fw' = out.mgr
                /\ call' = [name |-> "update_status_information",
                            arg |-> Fetched(resp), raised |-> out.raised,
                            trace |-> out.trace, bad |-> bad, status |-> resp.res]
    /\ UNCHANGED <<now, ticks, threads, cycles>>

\* a push payload that clears or sets the relay state of the sub-devices
CoapDevicesState == DoCoap({ (112 :> 0), (112 :> 1) }, {FALSE}, SettingsResponses)

NextDevices == PollFaulty \/ CoapDevicesState

SpecDevices == InitDevices /\ [][NextDevices]_vars

\* the sub-device at index i went through the cycle: its value was
\* extracted from the status, its hook ran once and its observer was
\* invoked once
Served(self, c, i) ==
    LET dev == self.devices[i]
    IN  /\ Get(dev.info_values, "state") = Some(c.status["relays/0/ison"])
        /\ Count(c.trace, "update_status_information", DevId(dev)) = 1
        /\ Count(c.trace, "raise_updated", DevId(dev)) = 1
        /\ Invoked(c.trace, DevId(dev), DeviceObserver) = 1

\* C18: a successful poll in which the extraction, the hook or the
\* notification of one sub-device raises does not end by an exception, and
\* every other sub-device, before and after that one in the list, has its
\* value extracted, its hook run and its observer invoked, once each.
C18_DeviceIsolation ==
    call.name = "update_status_information"
        => /\ ~call.raised
           /\ \A i \in DOMAIN block.devices :
                (call.bad \cap {DevExtract(i), DevHook(i), DevNotify(i)} = {})
                    => Served(block, call, i)

\* a poll in which a sub-device that is neither the first nor the last
\* raised
C18_Witness ==
    /\ call.name = "update_status_information"
    /\ \E i \in DOMAIN block.devices :
        /\ 1 < i /\ i < Len(block.devices)
        /\ call.bad \cap {DevExtract(i), DevHook(i), DevNotify(i)} # {}
        /\ ~Served(block, call, i)
        /\ Served(block, call, i - 1)
        /\ Served(block, call, i + 1)

---------------------------------------------------------------------------
(* SpecSingleton: the threads of the platform calling                      *)
(* FirmwareManager.instance(), one statement at a time.  Here fw is the    *)
(* Singleton that decorates the class: _instance is the attribute, absent  *)
(* until it is assigned, and objects are the FirmwareManager objects       *)
(* __init__ has run on, each with its own catalog cache; an object is      *)
(* known by its place in objects.  A thread's "made" is the object its     *)
(* call of self._decorated() returned, "value" what its last call of       *)
(* instance() returned.                                                    *)

\* Singleton.__init__: no attribute _instance yet
NewSingleton == [_instance |-> None, objects |-> << >>]

InitSingleton ==
    /\ now = 0
    /\ ticks = 0
    /\ block = Observed(Block("SHSW-25", [success |-> FALSE, res |-> EmptyDict]))
    /\ call = NoCall
    /\ fw = NewSingleton
    /\ threads = [t \in ThreadIds |-> [pc |-> "idle", made |-> None,
                                       value |-> None, calls |-> 0]]
    /\ cycles = NoCycles

\* a thread calls FirmwareManager.instance()
Instance ==
    /\ \E t \in ThreadIds :
        /\ threads[t].pc = "idle"
        /\ threads[t].calls < MaxCalls
        /\ threads' = [threads EXCEPT ![t].pc = "try", ![t].calls = @ + 1]
    /\ UNCHANGED <<now, ticks, block, call, fw, cycles>>

\* try: return self._instance; AttributeError when there is none
TryInstance ==
    /\ \E t \in ThreadIds :
        /\ threads[t].pc = "try"
        /\ threads' = IF fw._instance # None
                      THEN [threads EXCEPT ![t].pc = "idle",
                                           ![t].value = fw._instance]
                      ELSE [threads EXCEPT ![t].pc = "create"]
    /\ UNCHANGED <<now, ticks, block, call, fw, cycles>>

\* self._decorated(): a new object, on which __init__ runs
Decorated ==
    /\ \E t \in ThreadIds :
        /\ threads[t].pc = "create"
        /\ fw' = [fw EXCEPT !.objects = Append(@, NewFirmwareManager)]
        /\ threads' = [threads EXCEPT ![t].pc = "assign",
                                      ![t].made = Some(Len(fw.objects) + 1)]
    /\ UNCHANGED <<now, ticks, block, call, cycles>>

\* self._instance = <the new object>
AssignInstance ==
    /\ \E t \in ThreadIds :
        /\ threads[t].pc = "assign"
        /\ fw' = [fw EXCEPT !._instance = threads[t].made]
        /\ threads' = [threads EXCEPT ![t].pc = "return"]
    /\ UNCHANGED <<now, ticks, block, call, cycles>>

\* return self._instance, in the except branch
ReturnInstance ==
    /\ \E t \in ThreadIds :
        /\ threads[t].pc = "return"
        /\ threads' = [threads EXCEPT ![t].pc = "idle", ![t].value = fw._instance]
    /\ UNCHANGED <<now, ticks, block, call, fw, cycles>>

NextSingleton ==
    Instance \/ TryInstance \/ Decorated \/ AssignInstance \/ ReturnInstance

SpecSingleton == InitSingleton /\ [][NextSingleton]_vars

\* C21: under every interleaving of the threads that call instance(),
\* __init__ runs at most once, and every call that has returned has
\* returned the same object: the one _instance holds.
C21_OneInstance ==
    /\ Len(fw.objects) <= 1
    /\ \A t \in ThreadIds :
        threads[t].value # None => threads[t].value = fw._instance
    /\ \A t, u \in ThreadIds :
        (threads[t].value # None /\ threads[u].value # None)
            => threads[t].value = threads[u].value

===========================================================================
